---------------------------- MODULE Spec2Model ----------------------------
(***************************************************************************)
(* A model of the recommendation decoder (parse_ai_recommendation), the    *)
(* action/tile renderer (action_to_nl, mjai_to_natural, ...) and the       *)
(* state-to-text composer (explain) of src/llm/reasoning.py, together with *)
(* the engine client of src/llm/openai_llm.py and the token cache of       *)
(* DefaultAuthProvider in src/llm/auth.py.                                 *)
(*                                                                         *)
(* Python values are tagged records:                                       *)
(*   None          [t |-> "None"]                                          *)
(*   an int        [t |-> "int",  v |-> n]                                 *)
(*   a float       [t |-> "num",  v |-> n]   n counts thousandths: the     *)
(*                                           float 0.5 is Num(500)         *)
(*   a bool        [t |-> "bool", v |-> b]                                 *)
(*   a str         [t |-> "str",  v |-> <<token, ...>>]; concatenation is  *)
(*                                           \o, the empty str is <<>>     *)
(*   a list/tuple  [t |-> "list" / "tuple", v |-> <<value, ...>>]          *)
(*   a dict        [t |-> "dict", v |-> << <<key, value>>, ... >>] in      *)
(*                                           insertion order               *)
(*   a raised exception (the outcome of a call) [t |-> "raise", v |-> why] *)
(* The Chinese display strings of the source are written as ASCII tokens   *)
(* with the prefix cn_ (cn_peng for the pon verb, cn_dong for East, ...),  *)
(* so that no display string collides with an MJAI code.                   *)
(***************************************************************************)
EXTENDS Integers, Sequences, FiniteSets, TLC

VARIABLES
    pc,             \* position of the current call
    ai_reco,        \* argument ai_recommendation / ai_reco
    is_3p,          \* argument is_3p
    top_k,          \* argument top_k
    helper_raises,  \* environment: does mjh.meta_to_options raise on this call
    game_info,      \* argument game_info of explain
    kyoku_info,     \* argument kyoku_info of explain
    parsed,         \* outcome of parse_ai_recommendation
    n_seats,        \* explain's local seat_count
    lines,          \* explain's local list of document lines
    sent,           \* calls received by llm_client.send_request
    engine,         \* environment: what the engine call answers
    result,         \* outcome of the call (returned value or raised exception)
    fn,             \* name of the renderer called on its own
    arg,            \* its argument
    ret,            \* its outcome, once it has run
    tokens,         \* DefaultAuthProvider._tokens: service name -> cached token
    now,            \* time.time()
    last            \* outcome of the latest get_*_token call

explain_vars == <<pc, ai_reco, is_3p, top_k, helper_raises, game_info, kyoku_info,
                  parsed, n_seats, lines, sent, engine, result>>
render_vars == <<fn, arg, ret>>
auth_vars == <<tokens, now, last>>

vars == <<pc, ai_reco, is_3p, top_k, helper_raises, game_info, kyoku_info,
          parsed, n_seats, lines, sent, engine, result, fn, arg, ret,
          tokens, now, last>>

----------------------------------------------------------------------------
(* Python values *)

PyNone == [t |-> "None"]
PyInt(n) == [t |-> "int", v |-> n]
Num(n) == [t |-> "num", v |-> n]
Bool(b) == [t |-> "bool", v |-> b]
Str(toks) == [t |-> "str", v |-> toks]
S(tok) == Str(<<tok>>)
List(xs) == [t |-> "list", v |-> xs]
Tuple(xs) == [t |-> "tuple", v |-> xs]
Dict(entries) == [t |-> "dict", v |-> entries]
Raise(why) == [t |-> "raise", v |-> why]

IsRaise(x) == x.t = "raise"
IsDict(x) == x.t = "dict"
IsSeq(x) == x.t \in {"list", "tuple"}
IsStr(x) == x.t = "str"
\* isinstance(x, (float, int)); a bool is an int
IsNumber(x) == x.t \in {"int", "num", "bool"}
\* float(x) in thousandths, for a number x
Milli(x) ==
    CASE x.t = "int" -> x.v * 1000
      [] x.t = "num" -> x.v
      [] OTHER -> IF x.v THEN 1000 ELSE 0

\* bool(x): Python truthiness
Truthy(x) ==
    CASE x.t = "None" -> FALSE
      [] x.t \in {"int", "num"} -> x.v # 0
      [] x.t = "bool" -> x.v
      [] OTHER -> x.v # <<>>

\* key in d, for a dict d
HasKey(d, key) == \E i \in 1..Len(d.v) : d.v[i][1] = key

\* d.get(key, default), for a dict d
DictGet(d, key, default) ==
    IF HasKey(d, key)
    THEN d.v[CHOOSE i \in 1..Len(d.v) : d.v[i][1] = key][2]
    ELSE default

\* x is usable as a dictionary key (lists and dicts are unhashable)
Hashable(x) == x.t \in {"None", "int", "num", "bool", "str", "tuple"}

\* the tokens of str(x) / of x inside an f-string
StrOf(x) ==
    CASE x.t = "str" -> x.v
      [] x.t = "int" -> <<ToString(x.v)>>
      [] x.t = "num" -> <<"milli", ToString(x.v)>>
      [] x.t = "bool" -> <<IF x.v THEN "True" ELSE "False">>
      [] x.t = "None" -> <<"None">>
      [] OTHER -> <<"repr", x.t>>

\* seq[:k], Python's slice from the start (a negative k counts from the end)
SliceTo(seq, k) ==
    LET n == Len(seq)
        stop == IF k >= 0 THEN (IF k < n THEN k ELSE n)
                          ELSE (IF n + k > 0 THEN n + k ELSE 0)
    IN  SubSeq(seq, 1, stop)

----------------------------------------------------------------------------
(* Lookup tables *)

MJAI_TILE_2_NL ==
    ("1m" :> "cn_1wan") @@ ("2m" :> "cn_2wan") @@ ("3m" :> "cn_3wan") @@
    ("4m" :> "cn_4wan") @@ ("5mr" :> "cn_red5wan") @@ ("5m" :> "cn_5wan") @@
    ("6m" :> "cn_6wan") @@ ("7m" :> "cn_7wan") @@ ("8m" :> "cn_8wan") @@
    ("9m" :> "cn_9wan") @@
    ("1p" :> "cn_1bing") @@ ("2p" :> "cn_2bing") @@ ("3p" :> "cn_3bing") @@
    ("4p" :> "cn_4bing") @@ ("5pr" :> "cn_red5bing") @@ ("5p" :> "cn_5bing") @@
    ("6p" :> "cn_6bing") @@ ("7p" :> "cn_7bing") @@ ("8p" :> "cn_8bing") @@
    ("9p" :> "cn_9bing") @@
    ("1s" :> "cn_1suo") @@ ("2s" :> "cn_2suo") @@ ("3s" :> "cn_3suo") @@
    ("4s" :> "cn_4suo") @@ ("5sr" :> "cn_red5suo") @@ ("5s" :> "cn_5suo") @@
    ("6s" :> "cn_6suo") @@ ("7s" :> "cn_7suo") @@ ("8s" :> "cn_8suo") @@
    ("9s" :> "cn_9suo") @@
    ("E" :> "cn_dong") @@ ("S" :> "cn_nan") @@ ("W" :> "cn_xi") @@
    ("N" :> "cn_bei") @@ ("P" :> "cn_bai") @@ ("F" :> "cn_fa") @@
    ("C" :> "cn_zhong") @@
    ("?" :> "cn_weizhi")

\* variant of DORA_DORA_MARKERS: the last tile of each group is followed by
\* the first tile of the next group
DORA_DORA_MARKERS_chained ==
    LET order == <<"1m", "2m", "3m", "4m", "5m", "6m", "7m", "8m", "9m",
                   "1p", "2p", "3p", "4p", "5p", "6p", "7p", "8p", "9p",
                   "1s", "2s", "3s", "4s", "5s", "6s", "7s", "8s", "9s",
                   "E", "S", "W", "N", "P", "F", "C">>
    IN  [t \in {order[i] : i \in 1..Len(order)} |->
            order[((CHOOSE i \in 1..Len(order) : order[i] = t) % Len(order)) + 1]]

DORA_DORA_MARKERS ==
    ("1m" :> "2m") @@ ("2m" :> "3m") @@ ("3m" :> "4m") @@ ("4m" :> "5m") @@
    ("5m" :> "6m") @@ ("6m" :> "7m") @@ ("7m" :> "8m") @@ ("8m" :> "9m") @@
    ("9m" :> "1m") @@
    ("1p" :> "2p") @@ ("2p" :> "3p") @@ ("3p" :> "4p") @@ ("4p" :> "5p") @@
    ("5p" :> "6p") @@ ("6p" :> "7p") @@ ("7p" :> "8p") @@ ("8p" :> "9p") @@
    ("9p" :> "1p") @@
    ("1s" :> "2s") @@ ("2s" :> "3s") @@ ("3s" :> "4s") @@ ("4s" :> "5s") @@
    ("5s" :> "6s") @@ ("6s" :> "7s") @@ ("7s" :> "8s") @@ ("8s" :> "9s") @@
    ("9s" :> "1s") @@
    ("E" :> "S") @@ ("S" :> "W") @@ ("W" :> "N") @@ ("N" :> "E") @@
    ("P" :> "F") @@ ("F" :> "C") @@ ("C" :> "P")

ACTION_NL ==
    ("reach" :> "cn_lizhi") @@ ("pon" :> "cn_peng") @@ ("chi" :> "cn_chi") @@
    ("chi_low" :> "cn_chi(low)") @@ ("chi_mid" :> "cn_chi(mid)") @@
    ("chi_high" :> "cn_chi(high)") @@ ("kan_select" :> "cn_xuanzegang") @@
    ("dahai" :> "cn_dapai") @@ ("kakan" :> "cn_jiagang") @@
    ("daiminkan" :> "cn_daminggang") @@ ("ankan" :> "cn_angang") @@
    ("zimo" :> "cn_zimo") @@ ("hora" :> "cn_hule") @@
    ("ryukyoku" :> "cn_liuju") @@ ("nukidora" :> "cn_nukidora") @@
    ("none" :> "cn_guo")

\* x is a str that is a key of table
IsKeyOf(x, table) == IsStr(x) /\ Len(x.v) = 1 /\ x.v[1] \in DOMAIN table

\* mjai_to_natural: MJAI_TILE_2_NL.get(tile, tile); an unhashable tile raises
mjai_to_natural(tile) ==
    IF ~Hashable(tile) THEN Raise("TypeError")
    ELSE IF IsKeyOf(tile, MJAI_TILE_2_NL) THEN S(MJAI_TILE_2_NL[tile.v[1]])
    ELSE tile

\* sep.join(str(a) for a in xs)
RECURSIVE JoinStr(_, _)
JoinStr(xs, sep) ==
    IF xs = <<>> THEN <<>>
    ELSE IF Len(xs) = 1 THEN StrOf(xs[1])
    ELSE StrOf(xs[1]) \o <<sep>> \o JoinStr(Tail(xs), sep)

\* a or b
PyOr(a, b) == IF Truthy(a) THEN a ELSE b

\* variant of RenderTagged: dahai is rendered like every other tag, from
\* the table
RenderTaggedLong(typ, desc, tile) ==
    IF Truthy(tile)
    THEN IF IsRaise(mjai_to_natural(tile)) THEN mjai_to_natural(tile)
         ELSE Str(StrOf(desc) \o <<" ">> \o StrOf(mjai_to_natural(tile)))
    ELSE desc

\* the rendering shared by the tuple and dict forms once the tag is known:
\* short form for dahai, "<verb> <tile>" otherwise, bare verb without a tile
RenderTagged(typ, desc, tile) ==
    IF typ = S("dahai")
    THEN IF Truthy(tile)
         THEN IF IsRaise(mjai_to_natural(tile)) THEN mjai_to_natural(tile)
              ELSE Str(<<"cn_da">> \o StrOf(mjai_to_natural(tile)))
         ELSE S("cn_da")
    ELSE IF Truthy(tile)
         THEN IF IsRaise(mjai_to_natural(tile)) THEN mjai_to_natural(tile)
              ELSE Str(StrOf(desc) \o <<" ">> \o StrOf(mjai_to_natural(tile)))
         ELSE desc

action_to_nl(act) ==
    CASE act.t = "None" -> S("cn_wu")
      [] IsSeq(act) ->
            IF Len(act.v) >= 2 /\ IsKeyOf(act.v[1], ACTION_NL)
            THEN RenderTagged(act.v[1], S(ACTION_NL[act.v[1].v[1]]), act.v[2])
            ELSE IF Len(act.v) = 2 /\ IsStr(act.v[1]) /\ IsNumber(act.v[2])
            THEN mjai_to_natural(act.v[1])
            ELSE Str(JoinStr(act.v, " "))
      [] IsDict(act) ->
            LET typ == PyOr(DictGet(act, "type", PyNone), DictGet(act, "action", PyNone))
                pai == PyOr(DictGet(act, "pai", PyNone), DictGet(act, "tile", PyNone))
            IN  IF Truthy(typ)
                THEN IF ~Hashable(typ) THEN Raise("TypeError")
                     ELSE RenderTagged(typ,
                            IF IsKeyOf(typ, ACTION_NL) THEN S(ACTION_NL[typ.v[1]]) ELSE typ,
                            pai)
                ELSE IF Truthy(pai) THEN mjai_to_natural(pai)
                ELSE Str(StrOf(act))
      [] IsStr(act) ->
            IF IsKeyOf(act, ACTION_NL)
            THEN IF act = S("dahai") THEN S("cn_da") ELSE S(ACTION_NL[act.v[1]])
            ELSE mjai_to_natural(act)
      [] OTHER -> Str(StrOf(act))

----------------------------------------------------------------------------
(* common.mj_helper: the decoding helpers the decoder calls.  They live     *)
(* outside src/llm and are modelled from section 4.1 of the specification. *)

\* number of mask positions mask_bits_to_bool_list decodes
MaskLen == 3
\* largest q value drawn for q_values
MaxQ == 2

\* the two fixed action vocabularies (4-player and 3-player)
MJAI_MASK_LIST == <<"1m", "pon", "none">>
MJAI_MASK_LIST_3P == <<"1m", "none">>

\* mask_bits decoded into a boolean list, least significant bit first
mask_bits_to_bool_list(mask_bits) ==
    IF mask_bits.t # "int" THEN Raise("TypeError")
    ELSE List([i \in 1..MaskLen |-> Bool((mask_bits.v \div (2 ^ (i - 1))) % 2 = 1)])

\* e^k in thousandths, for the q values of the model
ExpMilli(k) ==
    CASE k = 0 -> 1000 [] k = 1 -> 2718 [] k = 2 -> 7389 [] k = 3 -> 20086
      [] OTHER -> 54598

RECURSIVE SumExp(_)
SumExp(qs) == IF qs = <<>> THEN 0 ELSE ExpMilli(qs[1].v) + SumExp(Tail(qs))

\* softmax(q_values): normalised weights in thousandths; anything that is not
\* a sequence of numbers raises
softmax(q_values) ==
    IF ~IsSeq(q_values) \/ \E i \in 1..Len(q_values.v) : q_values.v[i].t # "int"
    THEN Raise("TypeError")
    ELSE List([i \in 1..Len(q_values.v) |->
                Num((ExpMilli(q_values.v[i].v) * 1000) \div SumExp(q_values.v))])

\* the indices of the true positions of a boolean list, ascending
TrueIdx(mask) ==
    SelectSeq([i \in 1..Len(mask) |-> i], LAMBDA i : mask[i].v)

\* a < b for two numbers
NumLess(a, b) == Milli(a) < Milli(b)

\* sorted(pairs, key=lambda x: x[1], reverse=True) for numeric keys: stable,
\* so equal keys keep their order
RECURSIVE InsertDesc(_, _)
InsertDesc(sorted, x) ==
    IF sorted = <<>> THEN <<x>>
    ELSE IF NumLess(Head(sorted).v[2], x.v[2]) THEN <<x>> \o sorted
    ELSE <<Head(sorted)>> \o InsertDesc(Tail(sorted), x)

RECURSIVE SortedDesc(_)
SortedDesc(pairs) ==
    IF pairs = <<>> THEN <<>>
    ELSE InsertDesc(SortedDesc(SubSeq(pairs, 1, Len(pairs) - 1)), pairs[Len(pairs)])

\* meta_to_options: mask decoded over the vocabulary, softmax of q_values, the
\* k-th true position paired with the k-th weight, sorted by weight descending;
\* the call may also fail for reasons of its own (raises)
meta_to_options(meta, is3p, raises) ==
    LET mask_list == IF is3p THEN MJAI_MASK_LIST_3P ELSE MJAI_MASK_LIST
        mask == mask_bits_to_bool_list(DictGet(meta, "mask_bits", PyNone))
        w == softmax(DictGet(meta, "q_values", PyNone))
        idx == TrueIdx(mask.v)
    IN  IF raises \/ IsRaise(mask) \/ IsRaise(w) THEN Raise("helper")
        ELSE IF \E k \in 1..Len(idx) : idx[k] > Len(mask_list)
        THEN Raise("IndexError")
        ELSE List(SortedDesc([k \in 1..Len(idx) |->
                 Tuple(<<S(mask_list[idx[k]]),
                         IF k <= Len(w.v) THEN w.v[k] ELSE Num(0)>>)]))

----------------------------------------------------------------------------
(* parse_ai_recommendation *)

\* provenance strings
InfoEmpty == "cn_wu"
InfoMeta == "from meta (q_values + mask_bits)"
InfoManual == "from meta (manual parse of q_values + mask_bits)"
InfoMetaError == "error parsing meta"
InfoOptions == "from options field"
InfoAction == "from action field"
InfoSelected == "from selected field"
InfoMapping == "parsed from dict (action->score)"
InfoUnparsable == "cannot parse recommendation"
\* the join of an empty info list
InfoNone == ""

\* the record the q_values/mask_bits algorithm reads, or None
meta_source(reco) ==
    IF IsDict(reco) /\ HasKey(reco, "meta") /\ IsDict(DictGet(reco, "meta", PyNone))
    THEN DictGet(reco, "meta", PyNone)
    ELSE IF IsDict(reco) /\ HasKey(reco, "q_values") /\ HasKey(reco, "mask_bits")
    THEN reco
    ELSE PyNone

\* the condition of the first branch
TakesMetaPath(reco) ==
    /\ Truthy(meta_source(reco))
    /\ HasKey(meta_source(reco), "q_values")
    /\ HasKey(meta_source(reco), "mask_bits")

\* variant of ManualPairing: the weight is looked up at the mask position
\* instead of at the count of true positions seen so far
ManualPairingByPosition(mask, weight_values, mask_list) ==
    LET idx == TrueIdx(mask)
    IN  [k \in 1..Len(idx) |->
            Tuple(<<IF idx[k] <= Len(mask_list) THEN S(mask_list[idx[k]])
                    ELSE Str(<<"idx_", ToString(idx[k] - 1)>>),
                    IF idx[k] <= Len(weight_values) THEN weight_values[idx[k]]
                    ELSE Num(0)>>)]

\* the pairing loop of the manual decode, before sorting
ManualPairing(mask, weight_values, mask_list) ==
    LET idx == TrueIdx(mask)
    IN  [k \in 1..Len(idx) |->
            Tuple(<<IF idx[k] <= Len(mask_list) THEN S(mask_list[idx[k]])
                    ELSE Str(<<"idx_", ToString(idx[k] - 1)>>),
                    IF k <= Len(weight_values) THEN weight_values[k] ELSE Num(0)>>)]

\* variant of ManualDecode: the pairs are left in vocabulary order
ManualDecodeUnsorted(meta, is3p) ==
    LET mask_list == IF is3p THEN MJAI_MASK_LIST_3P ELSE MJAI_MASK_LIST
        mask == mask_bits_to_bool_list(DictGet(meta, "mask_bits", PyInt(0)))
        weight_values == softmax(DictGet(meta, "q_values", List(<<>>)))
    IN  IF IsRaise(mask) \/ IsRaise(weight_values)
        THEN [options |-> <<>>, info |-> InfoMetaError]
        ELSE [options |-> ManualPairing(mask.v, weight_values.v, mask_list),
              info |-> InfoManual]

\* the manual decode: runs when the helper raised
ManualDecode(meta, is3p) ==
    LET mask_list == IF is3p THEN MJAI_MASK_LIST_3P ELSE MJAI_MASK_LIST
        mask == mask_bits_to_bool_list(DictGet(meta, "mask_bits", PyInt(0)))
        weight_values == softmax(DictGet(meta, "q_values", List(<<>>)))
    IN  IF IsRaise(mask) \/ IsRaise(weight_values)
        THEN [options |-> <<>>, info |-> InfoMetaError]
        ELSE [options |-> SortedDesc(ManualPairing(mask.v, weight_values.v, mask_list)),
              info |-> InfoManual]

\* the first branch: the helper, then the manual decode
MetaDecode(meta, is3p, raises) ==
    IF IsRaise(meta_to_options(meta, is3p, raises))
    THEN ManualDecode(meta, is3p)
    ELSE [options |-> meta_to_options(meta, is3p, raises).v, info |-> InfoMeta]

\* Python's order on the str values the model draws as scores
StrRank(x) ==
    CASE x = S("1m") -> 1 [] x = S("E") -> 2 [] x = S("dahai") -> 3
      [] x = S("pon") -> 4 [] OTHER -> 5

\* kv[1] of a is below kv[1] of b
ScoreLess(a, b) ==
    IF IsStr(a) THEN StrRank(a) < StrRank(b) ELSE NumLess(a, b)

\* sorting these scores raises TypeError: two or more of them, not all numbers
\* and not all strs
SortRaises(items) ==
    /\ Len(items) >= 2
    /\ ~(\A i \in 1..Len(items) : IsNumber(items[i][2]))
    /\ ~(\A i \in 1..Len(items) : IsStr(items[i][2]))

RECURSIVE InsertItemDesc(_, _)
InsertItemDesc(sorted, x) ==
    IF sorted = <<>> THEN <<x>>
    ELSE IF ScoreLess(Head(sorted)[2], x[2]) THEN <<x>> \o sorted
    ELSE <<Head(sorted)>> \o InsertItemDesc(Tail(sorted), x)

\* sorted(ai_reco.items(), key=lambda kv: kv[1], reverse=True)
RECURSIVE SortedItemsDesc(_)
SortedItemsDesc(items) ==
    IF items = <<>> THEN <<>>
    ELSE InsertItemDesc(SortedItemsDesc(SubSeq(items, 1, Len(items) - 1)),
                        items[Len(items)])

\* the branches below the q_values/mask_bits one: options, action, selected,
\* generic mapping
LowerBranches(reco) ==
    IF IsDict(reco) /\ HasKey(reco, "options")
       /\ DictGet(reco, "options", PyNone).t = "list"
    THEN [options |-> DictGet(reco, "options", PyNone).v, info |-> InfoOptions]
    ELSE IF IsDict(reco) /\ HasKey(reco, "action")
    THEN [options |-> <<Tuple(<<DictGet(reco, "action", PyNone),
                               DictGet(reco, "prob", PyNone)>>)>>,
          info |-> InfoAction]
    ELSE IF IsDict(reco) /\ HasKey(reco, "selected")
    THEN [options |-> <<Tuple(<<DictGet(reco, "selected", PyNone),
                               DictGet(reco, "prob", PyNone)>>)>>,
          info |-> InfoSelected]
    ELSE IF IsDict(reco)
    THEN IF SortRaises(reco.v)
         THEN [options |-> <<>>, info |-> InfoUnparsable]
         ELSE [options |-> [i \in 1..Len(reco.v) |->
                              Tuple(<<S(SortedItemsDesc(reco.v)[i][1]),
                                      SortedItemsDesc(reco.v)[i][2]>>)],
               info |-> InfoMapping]
    ELSE [options |-> <<>>, info |-> InfoNone]

\* variant of DecodeBranch: a failed q_values/mask_bits decode falls through
\* to the lower branches
DecodeBranchFallthrough(reco, is3p, raises) ==
    IF TakesMetaPath(reco)
       /\ MetaDecode(meta_source(reco), is3p, raises).info # InfoMetaError
    THEN MetaDecode(meta_source(reco), is3p, raises)
    ELSE LowerBranches(reco)

\* the branch chain: the ranked option list and the provenance
DecodeBranch(reco, is3p, raises) ==
    IF TakesMetaPath(reco) THEN MetaDecode(meta_source(reco), is3p, raises)
    ELSE LowerBranches(reco)

\* "for act, prob in ..." can unpack e
Unpackable(e) == IsSeq(e) /\ Len(e.v) = 2

\* try: action_to_nl(act) except: str(act)
SafeActionNl(act) ==
    IF IsRaise(action_to_nl(act)) THEN Str(StrOf(act)) ELSE action_to_nl(act)

\* number of entries converted to display text
top_n == 2

\* variant of parse_ai_recommendation: the requested top_k entries are
\* converted instead of top_n
parse_ai_recommendation_topk(reco, is3p, topk, raises) ==
    IF ~Truthy(reco)
    THEN [raised |-> FALSE, formatted |-> <<>>, info |-> InfoEmpty, options |-> <<>>]
    ELSE LET d == DecodeBranch(reco, is3p, raises)
             top == SliceTo(d.options, topk)
         IN  IF \E i \in 1..Len(top) : ~Unpackable(top[i])
             THEN [raised |-> TRUE, formatted |-> <<>>, info |-> d.info,
                   options |-> d.options]
             ELSE [raised |-> FALSE,
                   formatted |-> [i \in 1..Len(top) |->
                        Tuple(<<SafeActionNl(top[i].v[1]), top[i].v[2]>>)],
                   info |-> d.info, options |-> d.options]

\* the outcome of the call: raised, or the (formatted, info) pair returned;
\* options is the local ranked list the entries were taken from
parse_ai_recommendation(reco, is3p, topk, raises) ==
    IF ~Truthy(reco)
    THEN [raised |-> FALSE, formatted |-> <<>>, info |-> InfoEmpty, options |-> <<>>]
    ELSE LET d == DecodeBranch(reco, is3p, raises)
             top == SliceTo(d.options, top_n)
         IN  IF \E i \in 1..Len(top) : ~Unpackable(top[i])
             THEN [raised |-> TRUE, formatted |-> <<>>, info |-> d.info,
                   options |-> d.options]
             ELSE [raised |-> FALSE,
                   formatted |-> [i \in 1..Len(top) |->
                        Tuple(<<SafeActionNl(top[i].v[1]), top[i].v[2]>>)],
                   info |-> d.info, options |-> d.options]

----------------------------------------------------------------------------
(* The renderers of the per-seat ledger *)

ACTION_NL_ADV ==
    ((-3) :> "cn_xiajia") @@ ((-2) :> "cn_duijia") @@ ((-1) :> "cn_shangjia") @@
    (0 :> "cn_ziji") @@ (1 :> "cn_xiajia") @@ (2 :> "cn_duijia") @@
    (3 :> "cn_shangjia")

\* x[i] for a 0-based index i: anything but a long enough sequence raises
Subscript(x, i) ==
    IF IsSeq(x) /\ i < Len(x.v) THEN x.v[i + 1] ELSE Raise("IndexOrTypeError")

\* sep.join of the strs xs
RECURSIVE JoinToks(_, _)
JoinToks(xs, sep) ==
    IF xs = <<>> THEN <<>>
    ELSE IF Len(xs) = 1 THEN xs[1]
    ELSE xs[1] \o <<sep>> \o JoinToks(Tail(xs), sep)

tile_list_to_nl_single(tiles) ==
    IF ~Truthy(tiles) THEN S("cn_wu")
    ELSE IF ~IsSeq(tiles) \/ \E i \in 1..Len(tiles.v) : ~IsStr(mjai_to_natural(tiles.v[i]))
    THEN Str(StrOf(tiles))
    ELSE Str(JoinToks([i \in 1..Len(tiles.v) |-> mjai_to_natural(tiles.v[i]).v], "cn_dun"))

tile_list_to_nl(tiles, tile_types) ==
    IF ~Truthy(tiles) THEN S("cn_wu")
    ELSE IF ~IsSeq(tiles) \/ \E i \in 1..Len(tiles.v) :
                \/ IsRaise(mjai_to_natural(tiles.v[i]))
                \/ IsRaise(Subscript(tile_types, i - 1))
    THEN Str(StrOf(tiles))
    ELSE Str(JoinToks([i \in 1..Len(tiles.v) |->
                StrOf(Subscript(tile_types, i - 1)) \o StrOf(mjai_to_natural(tiles.v[i]))],
             "cn_dun"))

get_dora_from_markers(dora_markers) ==
    IF ~Truthy(dora_markers) THEN List(<<>>)
    ELSE IF ~IsSeq(dora_markers) \/ \E i \in 1..Len(dora_markers.v) :
                                        ~Hashable(dora_markers.v[i])
    THEN Raise("TypeError")
    ELSE List([k \in 1..Len(SelectSeq(dora_markers.v,
                                      LAMBDA m : IsKeyOf(m, DORA_DORA_MARKERS))) |->
               S(DORA_DORA_MARKERS[SelectSeq(dora_markers.v,
                                      LAMBDA m : IsKeyOf(m, DORA_DORA_MARKERS))[k].v[1]])])

\* one meld of melds_to_nl: "[<type>: <tiles>]", or str(meld)
MeldToNl(meld, melds_type) ==
    IF IsSeq(meld)
    THEN <<"[">> \o StrOf(melds_type) \o <<": ">>
         \o JoinToks([i \in 1..Len(meld.v) |-> StrOf(mjai_to_natural(meld.v[i]))], "cn_dun")
         \o <<"]">>
    ELSE StrOf(meld)

melds_to_nl(melds, melds_types) ==
    IF ~Truthy(melds) THEN S("cn_wu")
    ELSE IF ~IsSeq(melds) THEN Raise("TypeError")
    ELSE IF \E j \in 1..Len(melds.v) :
              \/ IsSeq(melds.v[j]) /\ IsRaise(Subscript(melds_types, j - 1))
              \/ IsSeq(melds.v[j]) /\ \E i \in 1..Len(melds.v[j].v) :
                                         IsRaise(mjai_to_natural(melds.v[j].v[i]))
    THEN Raise("IndexOrTypeError")
    ELSE Str(JoinToks([j \in 1..Len(melds.v) |->
                MeldToNl(melds.v[j], Subscript(melds_types, j - 1))], "cn_comma"))

disc_type_to_nl(discard_type) ==
    IF ~Truthy(discard_type) THEN Str(<<>>)
    ELSE IF ~IsSeq(discard_type) THEN Str(StrOf(discard_type))
    ELSE List([i \in 1..Len(discard_type.v) |->
                IF Truthy(discard_type.v[i]) THEN S("cn_moqie") ELSE S("cn_shouqie")])

\* one entry of melds_info_to_nl; Raise when the subtraction target - actor
\* or the table lookup fails
MeldInfoToNl(info) ==
    IF IsSeq(info) /\ Len(info.v) >= 1
    THEN LET typ == info.v[1]
             actor == IF Len(info.v) > 1 THEN info.v[2] ELSE PyNone
             target == IF Len(info.v) > 2 THEN info.v[3] ELSE PyNone
             desc == IF IsKeyOf(typ, ACTION_NL) THEN S(ACTION_NL[typ.v[1]]) ELSE PyNone
         IN  IF ~Hashable(typ) THEN Raise("TypeError")
             ELSE IF Truthy(target)
             THEN IF target.t # "int" \/ actor.t # "int" THEN Raise("TypeError")
                  ELSE Str(StrOf(desc) \o <<"(from ">>
                           \o (IF target.v - actor.v \in DOMAIN ACTION_NL_ADV
                               THEN <<ACTION_NL_ADV[target.v - actor.v]>>
                               ELSE <<"None">>)
                           \o <<")">>)
             ELSE desc
    ELSE Str(StrOf(info))

melds_info_to_nl(melds_info) ==
    IF ~Truthy(melds_info) THEN Str(<<>>)
    ELSE IF ~IsSeq(melds_info) \/ \E i \in 1..Len(melds_info.v) :
                                      IsRaise(MeldInfoToNl(melds_info.v[i]))
    THEN melds_info
    ELSE List([i \in 1..Len(melds_info.v) |-> MeldInfoToNl(melds_info.v[i])])

----------------------------------------------------------------------------
(* explain *)

\* _get(obj, key, default): None gives the default, a dict its entry
Get(obj, key, default) ==
    IF obj.t = "None" THEN default ELSE DictGet(obj, key, default)

winds == <<"cn_dong", "cn_nan", "cn_xi", "cn_bei">>

\* number of winds in the rotation
NumWinds == 4

\* a seat label: position idx+1, the wind ("" for the position-only label),
\* and whether the "(me)" suffix is appended
Label(pos, wind, me) == [pos |-> pos, wind |-> wind, me |-> me]

\* scores: game_info.scores, otherwise kyoku_info.scores
ScoresOf(g, k) ==
    IF Get(g, "scores", PyNone).t = "None" THEN Get(k, "scores", PyNone)
    ELSE Get(g, "scores", PyNone)

\* variant of SeatCount: an empty sequence is taken as present
SeatCountEmptyCounts(g, k, is3p) ==
    LET scores == ScoresOf(g, k)
        discarded == Get(k, "discarded", PyNone)
        melded == Get(k, "melded", PyNone)
    IN  IF IsSeq(scores) THEN Len(scores.v)
        ELSE IF IsSeq(discarded) THEN Len(discarded.v)
        ELSE IF IsSeq(melded) THEN Len(melded.v)
        ELSE IF is3p THEN 3 ELSE 4

\* the normalised seat count
SeatCount(g, k, is3p) ==
    LET scores == ScoresOf(g, k)
        discarded == Get(k, "discarded", PyNone)
        melded == Get(k, "melded", PyNone)
    IN  IF Truthy(scores) /\ IsSeq(scores) THEN Len(scores.v)
        ELSE IF Truthy(discarded) /\ IsSeq(discarded) THEN Len(discarded.v)
        ELSE IF Truthy(melded) /\ IsSeq(melded) THEN Len(melded.v)
        ELSE IF is3p THEN 3 ELSE 4

\* seat_names: one label per seat, carrying the wind relative to the dealer
SeatNames(oya, seat_count) ==
    IF oya.t = "None"
    THEN [i \in 1..seat_count |-> Label(i, "", FALSE)]
    ELSE [i \in 1..seat_count |-> Label(i, winds[(((i - 1) - oya.v) % NumWinds) + 1], FALSE)]

\* the header line
HeaderLine(g, is3p) ==
    LET oya == Get(g, "oya", PyNone)
        dora == get_dora_from_markers(
                    Get(g, "dora_marker", Get(g, "dora", List(<<S("?")>>))))
    IN  [k |-> "header",
         bakaze |-> Get(g, "bakaze", S("?")),
         kyoku |-> Get(g, "kyoku", S("?")),
         honba |-> Get(g, "honba", PyInt(0)),
         kyotaku |-> Get(g, "kyotaku", PyInt(0)),
         oya |-> IF oya.t = "None" THEN S("cn_weizhi") ELSE PyInt(oya.v + 1),
         dora |-> mjai_to_natural(tile_list_to_nl_single(dora)),
         is3p |-> is3p]

\* the score line: a label and the points for every score
ScoreLine(scores, seat_names) ==
    IF Truthy(scores)
    THEN [k |-> "scores",
          entries |-> [i \in 1..Len(scores.v) |->
                [label |-> IF i <= Len(seat_names) THEN seat_names[i]
                           ELSE Label(i, "", FALSE),
                 points |-> scores.v[i]]]]
    ELSE [k |-> "scores_none"]

\* the label of the ledger line of seat i (0-based)
LedgerLabel(seat_names, i, self_seat) ==
    IF PyInt(i) = self_seat
    THEN Label(seat_names[i + 1].pos, seat_names[i + 1].wind, TRUE)
    ELSE Label(i + 1, "", FALSE)

\* the body of the per-seat loop raises for seat i (0-based)
LedgerRaises(k, i) ==
    LET discarded == Get(k, "discarded", PyNone)
        melded == Get(k, "melded", PyNone)
        discarded_type == Get(k, "discarded_type", PyNone)
        melded_info == Get(k, "melded_info", PyNone)
    IN  \/ IsRaise(Subscript(discarded_type, i))
        \/ IsRaise(Subscript(melded_info, i))
        \/ IsRaise(Subscript(melded, i))
        \/ IsRaise(melds_to_nl(Subscript(melded, i),
                               melds_info_to_nl(Subscript(melded_info, i))))

\* the ledger line of seat i (0-based), when the loop body does not raise
LedgerLine(g, k, seat_names, i) ==
    LET discarded == Get(k, "discarded", PyNone)
        melded == Get(k, "melded", PyNone)
        discarded_type == Get(k, "discarded_type", PyNone)
        melded_info == Get(k, "melded_info", PyNone)
        player_reached == Get(g, "player_reached", Get(g, "player_reach", PyNone))
        self_seat == Get(g, "self_seat", Get(g, "my_seat", PyNone))
        dis_types == disc_type_to_nl(Subscript(discarded_type, i))
        melds_infos == melds_info_to_nl(Subscript(melded_info, i))
    IN  [k |-> "ledger",
         label |-> LedgerLabel(seat_names, i, self_seat),
         reach |-> IsSeq(player_reached) /\ i < Len(player_reached.v)
                   /\ Truthy(player_reached.v[i + 1]),
         disc |-> IF IsSeq(discarded) /\ i < Len(discarded.v)
                  THEN tile_list_to_nl(discarded.v[i + 1], dis_types)
                  ELSE S("cn_wu"),
         melds |-> IF IsSeq(melded) /\ i < Len(melded.v)
                   THEN melds_to_nl(melded.v[i + 1], melds_infos)
                   ELSE S("cn_wu")]

\* the hand and drawn-tile lines
HandLines(g) ==
    LET my_tehai == Get(g, "my_tehai", Get(g, "tehai", PyNone))
        my_tsumohai == Get(g, "my_tsumohai", Get(g, "tsumohai", PyNone))
    IN  << [k |-> "blank"],
           [k |-> "hand", text |-> IF Truthy(my_tehai) THEN tile_list_to_nl_single(my_tehai)
                                   ELSE S("cn_weizhi")],
           [k |-> "drawn", text |-> IF Truthy(my_tsumohai) THEN mjai_to_natural(my_tsumohai)
                                    ELSE S("cn_wu")] >>

\* explain up to the hand snapshot: Raise, or the lines built so far
ExplainContext(g, k, is3p) ==
    LET oya == Get(g, "oya", PyNone)
        seat_count == SeatCount(g, k, is3p)
        seat_names == SeatNames(oya, seat_count)
    IN  IF \E i \in 0..(seat_count - 1) : LedgerRaises(k, i)
        THEN Raise("context")
        ELSE List(<< [k |-> "preamble1"], [k |-> "preamble2"], [k |-> "blank"],
                     HeaderLine(g, is3p),
                     ScoreLine(ScoresOf(g, k), seat_names),
                     [k |-> "blank"], [k |-> "ledger_title"] >>
                  \o [i \in 1..seat_count |-> LedgerLine(g, k, seat_names, i - 1)]
                  \o HandLines(g))

\* float(p): a number, a str spelling one ("0.5" is the one drawn), or
\* Raise for anything float() rejects
FloatOf(p) ==
    IF IsNumber(p) THEN Num(Milli(p))
    ELSE IF p = S("0.5") THEN Num(500)
    ELSE Raise("ValueError")

\* variant of fmt_prob: the percentage range 1..100 is tested before the
\* fraction range 0..1
fmt_prob_pct_first(p) ==
    IF p.t = "None" THEN Str(<<>>)
    ELSE IF IsRaise(FloatOf(p)) THEN Str(<<" (">> \o StrOf(p) \o <<")">>)
    ELSE IF 1000 <= FloatOf(p).v /\ FloatOf(p).v <= 100000
    THEN Str(<<" (", ToString((FloatOf(p).v + 50) \div 100), "tenths%", ")">>)
    ELSE IF 0 <= FloatOf(p).v /\ FloatOf(p).v <= 1000
    THEN Str(<<" (", ToString(FloatOf(p).v), "tenths%", ")">>)
    ELSE Str(<<" (">> \o StrOf(FloatOf(p)) \o <<")">>)

\* _fmt_prob: the probability suffix; a percentage with one decimal is
\* written as its number of tenths followed by the token "tenths%"
fmt_prob(p) ==
    IF p.t = "None" THEN Str(<<>>)
    ELSE IF IsRaise(FloatOf(p)) THEN Str(<<" (">> \o StrOf(p) \o <<")">>)
    ELSE IF 0 <= FloatOf(p).v /\ FloatOf(p).v <= 1000
    THEN Str(<<" (", ToString(FloatOf(p).v), "tenths%", ")">>)
    ELSE IF 1000 <= FloatOf(p).v /\ FloatOf(p).v <= 100000
    THEN Str(<<" (", ToString((FloatOf(p).v + 50) \div 100), "tenths%", ")">>)
    ELSE Str(<<" (">> \o StrOf(FloatOf(p)) \o <<")">>)

\* variant of RecoLines: every entry handed over is listed, top_k is ignored
RecoLinesAll(options, reco, topk) ==
    IF options # <<>>
    THEN IF \E i \in 1..Len(options) : IsRaise(action_to_nl(options[i].v[1]))
         THEN Raise("TypeError")
         ELSE List([i \in 1..Len(options) |->
                     [k |-> "reco", n |-> i,
                      act |-> action_to_nl(options[i].v[1]),
                      prob |-> fmt_prob(options[i].v[2])]])
    ELSE IF IsDict(reco) /\ HasKey(reco, "type")
    THEN IF ~IsStr(action_to_nl(reco)) THEN Raise("TypeError")
         ELSE List(<< [k |-> "reco", n |-> 1, act |-> action_to_nl(reco),
                       prob |-> fmt_prob(DictGet(reco, "prob", PyNone))] >>)
    ELSE List(<< [k |-> "no_reco"] >>)

\* the recommendation section: Raise, or the numbered lines
RecoLines(options, reco, topk) ==
    IF options # <<>>
    THEN IF \E i \in 1..Len(SliceTo(options, topk)) :
                IsRaise(action_to_nl(SliceTo(options, topk)[i].v[1]))
         THEN Raise("TypeError")
         ELSE List([i \in 1..Len(SliceTo(options, topk)) |->
                     [k |-> "reco", n |-> i,
                      act |-> action_to_nl(SliceTo(options, topk)[i].v[1]),
                      prob |-> fmt_prob(SliceTo(options, topk)[i].v[2])]])
    ELSE IF IsDict(reco) /\ HasKey(reco, "type")
    THEN IF ~IsStr(action_to_nl(reco)) THEN Raise("TypeError")
         ELSE List(<< [k |-> "reco", n |-> 1, act |-> action_to_nl(reco),
                       prob |-> fmt_prob(DictGet(reco, "prob", PyNone))] >>)
    ELSE List(<< [k |-> "no_reco"] >>)

\* the recommendation section between its title and the appendix
ExplainCompose(options, reco, topk) ==
    IF IsRaise(RecoLines(options, reco, topk)) THEN RecoLines(options, reco, topk)
    ELSE List(<< [k |-> "blank"], [k |-> "reco_title"] >>
              \o RecoLines(options, reco, topk).v
              \o << [k |-> "blank"], [k |-> "appendix"] >>)

\* variant of send_request: the two prompts change places
send_request_swapped(system, user) ==
    IF Truthy(user)
    THEN << [role |-> "system", content |-> user], [role |-> "user", content |-> system] >>
    ELSE << [role |-> "system", content |-> system] >>

\* AOAILLMClient.send_request: the messages handed to llm.invoke
send_request(system, user) ==
    IF Truthy(user)
    THEN << [role |-> "system", content |-> system], [role |-> "user", content |-> user] >>
    ELSE << [role |-> "system", content |-> system] >>

----------------------------------------------------------------------------
(* The inputs the calls are made with *)

\* longest options list drawn
MaxOptions == 3
\* largest top_k drawn
MaxTopK == 3
\* most optional context fields left out (or left empty) in one call
MaxMissing == 3

\* marks a key that the dict does not carry
Absent == [t |-> "absent"]
Entry(key, val) == IF val.t = "absent" THEN <<>> ELSE << <<key, val>> >>

\* all sequences over S of the lengths in lens
SeqsOf(elems, lens) == UNION {[1..n -> elems] : n \in lens}

QLens == 0..2
QValues == {PyNone, S("bad")} \cup {List(q) : q \in SeqsOf({PyInt(v) : v \in 0..MaxQ}, QLens)}
MaskValues == {PyNone} \cup {PyInt(m) : m \in 0..(2 ^ MaskLen - 1)}

\* a well-formed q_values / mask_bits pair
GoodQ == List(<<PyInt(0), PyInt(1)>>)
GoodMask == PyInt(3)

OptionElems ==
    { Tuple(<<S("pon"), Num(300)>>),
      Tuple(<<Tuple(<<S("dahai"), S("5mr")>>), Num(500)>>),
      PyInt(7) }
GoodOptions == List(<<Tuple(<<S("pon"), Num(300)>>)>>)

\* the keys present or absent in every combination, with fixed values
ShapePayloads ==
    { Dict(Entry("type", ty) \o Entry("meta", me) \o Entry("q_values", q)
           \o Entry("mask_bits", mb) \o Entry("options", op)
           \o Entry("action", ac) \o Entry("selected", se)) :
        ty \in {Absent, S("dahai")},
        me \in {Absent, S("x"), Dict(<<>>), Dict(<< <<"q_values", GoodQ>> >>),
                Dict(<< <<"q_values", GoodQ>>, <<"mask_bits", GoodMask>> >>)},
        q \in {Absent, GoodQ},
        mb \in {Absent, GoodMask},
        op \in {Absent, Tuple(GoodOptions.v), GoodOptions},
        ac \in {Absent, S("pon")},
        se \in {Absent, S("1m")} }

\* q_values and mask_bits of every content, nested or at top level
MetaPayloads ==
    { Dict(<< <<"meta", Dict(<< <<"q_values", q>>, <<"mask_bits", mb>> >>)>> >>) :
        q \in QValues, mb \in MaskValues }
    \cup { Dict(<< <<"q_values", q>>, <<"mask_bits", mb>> >>) :
        q \in QValues, mb \in MaskValues }

\* an undecodable q_values / mask_bits pair beside a lower-priority shape
FallbackPayloads ==
    { Dict(<< <<"q_values", q>>, <<"mask_bits", GoodMask>> >>
           \o Entry("options", op) \o Entry("action", ac) \o Entry("selected", se)) :
        q \in {S("bad"), GoodQ},
        op \in {Absent, GoodOptions},
        ac \in {Absent, S("pon")},
        se \in {Absent, S("1m")} }

\* options lists of every content
OptionsPayloads ==
    { Dict(Entry("type", ty) \o << <<"options", List(os)>> >>) :
        ty \in {Absent, S("dahai")},
        os \in SeqsOf(OptionElems, 0..MaxOptions) }

\* a single action or selected field, with and without prob
ActionPayloads ==
    { Dict(<< <<key, act>> >> \o Entry("prob", pr)) :
        key \in {"action", "selected"},
        act \in {S("pon"), Dict(<< <<"type", S("dahai")>>, <<"pai", S("5mr")>> >>)},
        pr \in {Absent, Num(873), PyInt(42), S("high")} }

\* generic action -> score mappings
ScoreValues == {PyInt(1), PyInt(2), S("E"), PyNone}
MappingPayloads ==
    { Dict(<< <<"a", x>> >>) : x \in ScoreValues }
    \cup { Dict(<< <<"a", x>>, <<"b", y>> >>) : x \in ScoreValues, y \in ScoreValues }

\* values that are no dict, empty and non-empty
NonDictPayloads ==
    { PyNone, List(<<>>), Str(<<>>), PyInt(0),
      List(<<PyInt(1)>>), S("abc"), PyInt(5) }

Payloads ==
    ShapePayloads \cup MetaPayloads \cup FallbackPayloads \cup OptionsPayloads
    \cup ActionPayloads \cup MappingPayloads \cup NonDictPayloads

TopKs == (-1)..MaxTopK

FullScores(n) == List([i \in 1..n |-> PyInt(25000 + i)])
FullDiscarded(n) ==
    List([i \in 1..n |-> IF i = 1 THEN List(<<S("1m"), S("E")>>) ELSE List(<<>>)])
FullDiscardedType(n) ==
    List([i \in 1..n |-> IF i = 1 THEN List(<<Bool(TRUE), Bool(FALSE)>>) ELSE List(<<>>)])
FullMelded(n) ==
    List([i \in 1..n |-> IF i = 2 THEN List(<<List(<<S("E"), S("E"), S("E")>>)>>)
                         ELSE List(<<>>)])
FullMeldedInfo(n) ==
    List([i \in 1..n |-> IF i = 2 THEN List(<<Tuple(<<S("pon"), PyInt(1), PyInt(3)>>)>>)
                         ELSE List(<<>>)])
FullReached(n) == List([i \in 1..n |-> Bool(i = 1)])

\* the choices of the optional fields of game_info and kyoku_info
GameChoices(n) ==
    [scores : {Absent, List(<<>>), FullScores(n)},
     oya : {Absent} \cup {PyInt(o) : o \in 0..3},
     self_seat : {Absent, PyInt(0), PyInt(2)},
     dora_marker : {Absent, List(<<S("9m"), S("N")>>)},
     player_reached : {Absent, FullReached(n)},
     my_tehai : {Absent, List(<<S("1m"), S("5mr")>>)},
     my_tsumohai : {Absent, S("9p")}]
KyokuChoices(n) ==
    [discarded : {Absent, List(<<>>), FullDiscarded(n)},
     melded : {Absent, List(<<>>), FullMelded(n)},
     discarded_type : {Absent, FullDiscardedType(n)},
     melded_info : {Absent, FullMeldedInfo(n)}]

\* a field left out or left empty
IsMissing(val) == val.t = "absent" \/ (IsSeq(val) /\ val.v = <<>>)
MissingCount(c) == Cardinality({f \in DOMAIN c : IsMissing(c[f])})

GameDict(c) ==
    Dict(Entry("scores", c.scores) \o Entry("oya", c.oya)
         \o Entry("self_seat", c.self_seat) \o Entry("dora_marker", c.dora_marker)
         \o Entry("player_reached", c.player_reached)
         \o Entry("my_tehai", c.my_tehai) \o Entry("my_tsumohai", c.my_tsumohai))
KyokuDict(c) ==
    Dict(Entry("discarded", c.discarded) \o Entry("melded", c.melded)
         \o Entry("discarded_type", c.discarded_type)
         \o Entry("melded_info", c.melded_info))

\* the whole record is None
NoneChoice == [none |-> TRUE]
GameOf(c) == IF c = NoneChoice THEN PyNone ELSE GameDict(c)
KyokuOf(c) == IF c = NoneChoice THEN PyNone ELSE KyokuDict(c)
MissingOf(c) == IF c = NoneChoice THEN 0 ELSE MissingCount(c)

\* a context with every field present
FullGame(n) ==
    GameDict([scores |-> FullScores(n), oya |-> PyInt(1), self_seat |-> PyInt(0),
              dora_marker |-> List(<<S("9m"), S("N")>>),
              player_reached |-> FullReached(n),
              my_tehai |-> List(<<S("1m"), S("5mr")>>), my_tsumohai |-> S("9p")])
FullKyoku(n) ==
    KyokuDict([discarded |-> FullDiscarded(n), melded |-> FullMelded(n),
               discarded_type |-> FullDiscardedType(n),
               melded_info |-> FullMeldedInfo(n)])

\* contexts whose scores, discarded and melded are absent, empty or of
\* lengths 2, 3 and 4, as lists and as tuples
MixedChoices ==
    [scores : {Absent, List(<<>>), FullScores(2), Tuple(FullScores(2).v)},
     discarded : {Absent, List(<<>>), FullDiscarded(3), Tuple(FullDiscarded(3).v)},
     melded : {Absent, List(<<>>), FullMelded(4), Tuple(<<>>)}]
MixedGame(scores) ==
    GameDict([scores |-> scores, oya |-> PyInt(1), self_seat |-> PyInt(0),
              dora_marker |-> Absent, player_reached |-> Absent,
              my_tehai |-> Absent, my_tsumohai |-> Absent])
MixedKyoku(discarded, melded) ==
    KyokuDict([discarded |-> discarded, melded |-> melded,
               discarded_type |-> FullDiscardedType(4),
               melded_info |-> FullMeldedInfo(4)])

\* the payload every context is combined with
CorePayload ==
    Dict(<< <<"options", List(<<Tuple(<<S("pon"), Num(300)>>),
                                Tuple(<<S("none"), Num(200)>>),
                                Tuple(<<S("1m"), Num(100)>>)>>)>> >>)

\* the payloads the full context is combined with
ExplainPayloads ==
    OptionsPayloads \cup ActionPayloads \cup MappingPayloads \cup NonDictPayloads
    \cup FallbackPayloads

\* the arguments of an explain call with the full context: every payload
\* above, top_k and helper outcome
ExplainInputs ==
    { x \in [is3p : BOOLEAN, reco : ExplainPayloads, topk : TopKs, raises : BOOLEAN] :
        x.raises => TakesMetaPath(x.reco) }

\* the arguments of a direct parse_ai_recommendation call
ParseInputs ==
    { x \in [is3p : BOOLEAN, reco : Payloads, topk : TopKs, raises : BOOLEAN] :
        x.raises => TakesMetaPath(x.reco) }

----------------------------------------------------------------------------
(* DefaultAuthProvider: the token cache *)

\* the names the tokens are cached under
Services == {"azure", "substrate", "substrate_llm", "graph"}

\* a token, given by the exp claim jwt.decode reads from it
Jwt(exp) == [t |-> "jwt", exp |-> exp]

\* self._tokens = {}: _get_token answers None for every name
EmptyCache == [name \in Services |-> PyNone]

\* variant of is_fresh: a token is stale from the second it expires in
is_fresh_strict(token, time) ==
    IF token.t = "None" THEN FALSE
    ELSE IF token.exp <= time THEN FALSE
    ELSE TRUE

\* _is_fresh(token) at time.time() = time
is_fresh(token, time) ==
    IF token.t = "None" THEN FALSE
    ELSE IF token.exp < time THEN FALSE
    ELSE TRUE

----------------------------------------------------------------------------
(* The state machine *)

\* what an outcome of the engine call can be
EngineOutcomes == {S("explanation A"), S("explanation B"), Raise("engine")}

\* the request llm_client received when the module was imported
WarmupCall == send_request(Str(<<>>), S("cn_warmup_prompt"))

NoParse == [raised |-> FALSE, formatted |-> <<>>, info |-> "", options |-> <<>>]

ExplainInit ==
    /\ pc = "idle"
    /\ ai_reco = PyNone
    /\ is_3p = FALSE
    /\ top_k = 3
    /\ helper_raises = FALSE
    /\ game_info = PyNone
    /\ kyoku_info = PyNone
    /\ parsed = NoParse
    /\ n_seats = 0
    /\ lines = <<>>
    /\ sent = <<WarmupCall>>
    /\ engine = PyNone
    /\ result = PyNone

\* no renderer is called on its own
NoRender == fn = "none" /\ arg = PyNone /\ ret = PyNone

\* the provider is not in use
NoAuth == tokens = EmptyCache /\ now = 0 /\ last = PyNone

Init == ExplainInit /\ NoRender /\ NoAuth

\* a caller invokes parse_ai_recommendation directly
ParseCall ==
    /\ pc = "idle"
    /\ \E a \in ParseInputs :
         /\ ai_reco' = a.reco
         /\ is_3p' = a.is3p
         /\ top_k' = a.topk
         /\ helper_raises' = a.raises
         /\ parsed' = parse_ai_recommendation(a.reco, a.is3p, a.topk, a.raises)
    /\ result' = IF parsed'.raised THEN Raise("unpack")
                 ELSE Tuple(<<List(parsed'.formatted), S(parsed'.info)>>)
    /\ pc' = "parse_done"
    /\ UNCHANGED <<game_info, kyoku_info, n_seats, lines, sent, engine>>
    /\ UNCHANGED <<render_vars, auth_vars>>

\* explain is called with these arguments and builds the document up to the
\* hand snapshot
ExplainStart(g, k, is3p, reco, topk, raises) ==
    /\ ai_reco' = reco
    /\ is_3p' = is3p
    /\ top_k' = topk
    /\ helper_raises' = raises
    /\ game_info' = g
    /\ kyoku_info' = k
    /\ n_seats' = SeatCount(g, k, is3p)
    /\ IF IsRaise(ExplainContext(g, k, is3p))
       THEN /\ pc' = "raised"
            /\ result' = ExplainContext(g, k, is3p)
            /\ lines' = lines
       ELSE /\ pc' = "decode"
            /\ result' = result
            /\ lines' = ExplainContext(g, k, is3p).v
    /\ UNCHANGED <<parsed, sent, engine>>
    /\ UNCHANGED <<render_vars, auth_vars>>

\* a caller invokes explain: any context (at most MaxMissing fields missing, or
\* a record None altogether) with the core payload, a context whose scores,
\* discarded and melded differ in length, or the full context with any payload
ExplainCall ==
    /\ pc = "idle"
    /\ \/ \E n \in {3, 4}, b \in BOOLEAN :
            \E g \in GameChoices(n) \cup {NoneChoice},
               k \in KyokuChoices(n) \cup {NoneChoice} :
               /\ MissingOf(g) + MissingOf(k) <= MaxMissing
               /\ ExplainStart(GameOf(g), KyokuOf(k), b, CorePayload, MaxTopK, FALSE)
       \/ \E b \in BOOLEAN, c \in MixedChoices :
            ExplainStart(MixedGame(c.scores), MixedKyoku(c.discarded, c.melded),
                         b, CorePayload, MaxTopK, FALSE)
       \/ \E a \in ExplainInputs :
            ExplainStart(FullGame(IF a.is3p THEN 3 ELSE 4),
                         FullKyoku(IF a.is3p THEN 3 ELSE 4),
                         a.is3p, a.reco, a.topk, a.raises)

\* explain decodes the recommendation
ExplainDecode ==
    /\ pc = "decode"
    /\ parsed' = parse_ai_recommendation(ai_reco, is_3p, top_k, helper_raises)
    /\ IF parsed'.raised
       THEN pc' = "raised" /\ result' = Raise("unpack")
       ELSE pc' = "compose" /\ result' = result
    /\ UNCHANGED <<ai_reco, is_3p, top_k, helper_raises, game_info, kyoku_info,
                   n_seats, lines, sent, engine>>
    /\ UNCHANGED <<render_vars, auth_vars>>

\* explain appends the recommendation section and the appendix
ExplainComposeReco ==
    /\ pc = "compose"
    /\ IF IsRaise(ExplainCompose(parsed.formatted, ai_reco, top_k))
       THEN pc' = "raised" /\ result' = Raise("TypeError") /\ lines' = lines
       ELSE /\ pc' = "send"
            /\ result' = result
            /\ lines' = lines \o ExplainCompose(parsed.formatted, ai_reco, top_k).v
    /\ UNCHANGED <<ai_reco, is_3p, top_k, helper_raises, game_info, kyoku_info,
                   parsed, n_seats, sent, engine>>
    /\ UNCHANGED <<render_vars, auth_vars>>

\* explain calls llm_client.send_request("", prompt); the engine answers or fails
EngineCall ==
    /\ pc = "send"
    /\ sent' = Append(sent, send_request(Str(<<>>), List(lines)))
    /\ \E out \in EngineOutcomes : engine' = out
    /\ pc' = "sent"
    /\ UNCHANGED <<ai_reco, is_3p, top_k, helper_raises, game_info, kyoku_info,
                   parsed, n_seats, lines, result>>
    /\ UNCHANGED <<render_vars, auth_vars>>

\* explain returns the explanation, or the engine's exception propagates
ExplainReturn ==
    /\ pc = "sent"
    /\ result' = engine
    /\ pc' = IF IsRaise(engine) THEN "raised" ELSE "returned"
    /\ UNCHANGED <<ai_reco, is_3p, top_k, helper_raises, game_info, kyoku_info,
                   parsed, n_seats, lines, sent, engine>>
    /\ UNCHANGED <<render_vars, auth_vars>>

Next ==
    \/ ParseCall
    \/ ExplainCall
    \/ ExplainDecode
    \/ ExplainComposeReco
    \/ EngineCall
    \/ ExplainReturn

Spec == Init /\ [][Next]_vars

----------------------------------------------------------------------------
(* The properties *)

\* parse_ai_recommendation has run on ai_reco (directly or inside explain)
Decoded == pc \in {"parse_done", "compose", "send", "sent", "returned"}

\* the document is complete: explain has reached the engine call
Composed == pc \in {"send", "sent", "returned"}

\* the payload conditions of the five recognised shapes
HasQMask(d) == IsDict(d) /\ HasKey(d, "q_values") /\ HasKey(d, "mask_bits")
ShapeNestedMeta(r) ==
    IsDict(r) /\ HasKey(r, "meta") /\ HasQMask(DictGet(r, "meta", PyNone))
ShapeTopLevel(r) == HasQMask(r)
ShapeOptions(r) ==
    IsDict(r) /\ HasKey(r, "options") /\ DictGet(r, "options", PyNone).t = "list"
ShapeAction(r) == IsDict(r) /\ HasKey(r, "action")
ShapeSelected(r) == IsDict(r) /\ HasKey(r, "selected")

\* the first interpretation, in priority order, whose condition r satisfies
FirstShape(r) ==
    IF ShapeNestedMeta(r) \/ ShapeTopLevel(r) THEN "qmask"
    ELSE IF ShapeOptions(r) THEN "options"
    ELSE IF ShapeAction(r) THEN "action"
    ELSE IF ShapeSelected(r) THEN "selected"
    ELSE IF IsDict(r) THEN "mapping"
    ELSE "none"

\* the interpretation a provenance string stands for
BranchOfInfo(info) ==
    IF info \in {InfoMeta, InfoManual, InfoMetaError} THEN "qmask"
    ELSE IF info = InfoOptions THEN "options"
    ELSE IF info = InfoAction THEN "action"
    ELSE IF info = InfoSelected THEN "selected"
    ELSE IF info \in {InfoMapping, InfoUnparsable} THEN "mapping"
    ELSE "none"

\* C1: parse_ai_recommendation never raises: whatever the payload and the
\* seat-count flag, the call returns a (list, provenance) pair.
C1_DecodeNeverRaises ==
    pc = "parse_done" => ~parsed.raised /\ result.t = "tuple"

\* C2: for every non-empty payload the interpretation consumed is the first,
\* in the order nested meta, top-level q_values/mask_bits, options, action,
\* selected, mapping, whose condition the payload satisfies; top-level
\* q_values/mask_bits are decoded also beside a 'meta' record lacking them.
C2_FirstMatchWins ==
    (pc = "parse_done" /\ Truthy(ai_reco))
        => BranchOfInfo(parsed.info) = FirstShape(ai_reco)

\* the payload matches none of the recognised shapes
NoShape(r) ==
    /\ FirstShape(r) \in {"mapping", "none"}
    /\ IsDict(r) => SortRaises(r.v)

\* C3: a non-empty payload that matches none of the recognised shapes yields
\* an empty option sequence and a non-empty diagnostic provenance string.
C3_UnrecognisedHasDiagnostic ==
    (pc = "parse_done" /\ Truthy(ai_reco) /\ NoShape(ai_reco))
        => /\ ~parsed.raised
           /\ parsed.formatted = <<>>
           /\ parsed.info # ""

\* C4: explain never raises because an optional context field is missing
\* (a round context that is None altogether included): the document is
\* built and composition reaches the engine call.
C4_ComposerNeverFails ==
    ~(pc = "raised" /\ result = Raise("context"))

\* both the helper and the manual decode raise on the payload's
\* q_values/mask_bits
MetaDecodeFails(r, is3p, raises) ==
    /\ TakesMetaPath(r)
    /\ IsRaise(meta_to_options(meta_source(r), is3p, raises))
    /\ \/ IsRaise(mask_bits_to_bool_list(DictGet(meta_source(r), "mask_bits", PyInt(0))))
       \/ IsRaise(softmax(DictGet(meta_source(r), "q_values", List(<<>>))))

\* the payload also satisfies a lower-priority shape
LowerShape(r) == ShapeOptions(r) \/ ShapeAction(r) \/ ShapeSelected(r)

\* C5 as stated: when helper and manual decode both raise for a payload that
\* also satisfies a lower-priority shape, the call falls back to that branch
\* and returns its options rather than an empty result.
C5_FallsBackToLowerBranch ==
    (pc = "parse_done" /\ MetaDecodeFails(ai_reco, is_3p, helper_raises)
     /\ LowerShape(ai_reco))
        => /\ parsed.info = LowerBranches(ai_reco).info
           /\ parsed.formatted # <<>>

\* C5 amended: when helper and manual decode both raise, the call returns an
\* empty list with the meta-error provenance, whatever lower-priority shape
\* the payload also satisfies.
C5_MetaFailureYieldsEmpty ==
    (pc = "parse_done" /\ MetaDecodeFails(ai_reco, is_3p, helper_raises))
        => /\ ~parsed.raised
           /\ parsed.formatted = <<>>
           /\ parsed.info = InfoMetaError

C5_Witness ==
    /\ pc = "parse_done"
    /\ MetaDecodeFails(ai_reco, is_3p, helper_raises)
    /\ ShapeOptions(ai_reco)
    /\ ShapeAction(ai_reco)
    /\ parsed.info = InfoMetaError

\* number of true bits in the decoded mask of the payload
TrueBits(r) ==
    LET mask == mask_bits_to_bool_list(DictGet(meta_source(r), "mask_bits", PyInt(0)))
    IN  IF IsRaise(mask) THEN 0 ELSE Len(TrueIdx(mask.v))

\* C6: a payload decoded through the q_values/mask_bits path yields a list in
\* non-increasing order of probability, no longer than the number of true
\* bits in the decoded mask.
C6_MetaPathSortedAndBounded ==
    (Decoded /\ TakesMetaPath(ai_reco))
        => /\ ~parsed.raised
           /\ \A i, j \in 1..Len(parsed.formatted) :
                 i < j => ~NumLess(parsed.formatted[i].v[2], parsed.formatted[j].v[2])
           /\ Len(parsed.formatted) <= TrueBits(ai_reco)

C6_Witness ==
    /\ pc = "parse_done"
    /\ TakesMetaPath(ai_reco)
    /\ parsed.info = InfoManual
    /\ Len(parsed.formatted) = 2
    /\ NumLess(parsed.formatted[2].v[2], parsed.formatted[1].v[2])
    /\ TrueBits(ai_reco) = 3

\* the smaller of two integers
Min(a, b) == IF a <= b THEN a ELSE b

RecoCount == Cardinality({i \in 1..Len(lines) : lines[i].k = "reco"})

\* C8 as stated: a payload decoded through the 'options' path with n options
\* gives min(top_k, n) numbered lines, not capped at 2.
C8_OptionsPathNotCapped ==
    (Composed /\ parsed.info = InfoOptions /\ Len(parsed.options) >= 1 /\ top_k >= 0)
        => RecoCount = Min(top_k, Len(parsed.options))

\* C8 amended: a payload decoded through the 'options' path with n >= 1
\* options gives, for top_k >= 0, min(top_k, n, 2) numbered lines: never
\* more than the 2 entries the decoder hands over.
C8_OptionsPathCappedAtTwo ==
    (Composed /\ parsed.info = InfoOptions /\ Len(parsed.options) >= 1 /\ top_k >= 0)
        => RecoCount = Min(top_k, Min(Len(parsed.options), 2))

C8_Witness ==
    /\ pc = "send"
    /\ parsed.info = InfoOptions
    /\ Len(parsed.options) = 3
    /\ top_k = 3
    /\ RecoCount = 2

\* the request explain hands to the engine client
ExplainRequest ==
    << [role |-> "system", content |-> Str(<<>>)],
       [role |-> "user", content |-> List(lines)] >>

\* the document in lines runs from the preamble through the recommendation
\* section to the appendix
DocumentComplete ==
    /\ lines # <<>>
    /\ lines[Len(lines)].k = "appendix"
    /\ \E i \in 1..Len(lines) : lines[i].k = "reco_title"

\* C9: an explain call whose composition succeeds makes exactly one
\* send_request call, after decode and composition, with an empty system
\* prompt and the document as user prompt; it returns that call's result
\* unchanged, and an engine exception propagates unmodified, without retry.
C9_OneEngineCall ==
    /\ pc \in {"idle", "parse_done", "decode", "compose", "send"}
          => sent = <<WarmupCall>>
    /\ pc \in {"sent", "returned"}
          => /\ sent = <<WarmupCall, ExplainRequest>>
             /\ DocumentComplete
             /\ ~parsed.raised
    /\ pc = "returned" => result = engine /\ ~IsRaise(engine)
    /\ pc = "raised"
          => \/ sent = <<WarmupCall>> /\ result \in {Raise("context"), Raise("unpack"),
                                                    Raise("TypeError")}
             \/ /\ sent = <<WarmupCall, ExplainRequest>>
                /\ DocumentComplete
                /\ result = engine
                /\ result = Raise("engine")

C9_Witness ==
    /\ pc = "returned"
    /\ result = S("explanation B")
    /\ sent = <<WarmupCall, ExplainRequest>>
    /\ RecoCount = 2

\* the wind of the seat at position pos (1-based) when the dealer is oya
ExpectedWind(pos, oya) ==
    IF oya.t = "None" THEN ""
    ELSE CASE (pos - 1 - oya.v) % 4 = 0 -> "cn_dong"
           [] (pos - 1 - oya.v) % 4 = 1 -> "cn_nan"
           [] (pos - 1 - oya.v) % 4 = 2 -> "cn_xi"
           [] OTHER -> "cn_bei"

\* C10: every seat label, in the score line and in the ledger lines alike,
\* carries the wind (idx - oya) mod 4 positions after East when the dealer is
\* known, and is the position-only fallback when the dealer is absent.
C10_LabelsCarryWind ==
    \A i \in 1..Len(lines) :
        /\ lines[i].k = "ledger"
              => lines[i].label.wind
                    = ExpectedWind(lines[i].label.pos, Get(game_info, "oya", PyNone))
        /\ lines[i].k = "scores"
              => \A e \in 1..Len(lines[i].entries) :
                    lines[i].entries[e].label.wind
                       = ExpectedWind(lines[i].entries[e].label.pos,
                                      Get(game_info, "oya", PyNone))

\* explain has computed its seat count
Started == pc \notin {"idle", "parse_done"}

\* x is present (not None) and a list or tuple
PresentSeq(x) == IsSeq(x)

\* C12 as stated: the seat count is the length of the first of scores,
\* discarded, melded that is present and a list or tuple, an empty sequence
\* counting as present; otherwise 3 if is_3p is set, else 4.
C12_SeatCountFirstPresent ==
    Started =>
        n_seats =
            IF PresentSeq(ScoresOf(game_info, kyoku_info))
            THEN Len(ScoresOf(game_info, kyoku_info).v)
            ELSE IF PresentSeq(Get(kyoku_info, "discarded", PyNone))
            THEN Len(Get(kyoku_info, "discarded", PyNone).v)
            ELSE IF PresentSeq(Get(kyoku_info, "melded", PyNone))
            THEN Len(Get(kyoku_info, "melded", PyNone).v)
            ELSE IF is_3p THEN 3 ELSE 4

\* x is a non-empty list or tuple
NonEmptySeq(x) == IsSeq(x) /\ x.v # <<>>

\* C12 amended: the seat count is the length of the first of scores,
\* discarded, melded that is a NON-EMPTY list or tuple; an empty sequence is
\* passed over like an absent one, and the default (3 if is_3p, else 4)
\* applies when none of the three is a non-empty sequence.
C12_SeatCountFirstNonEmpty ==
    Started =>
        n_seats =
            IF NonEmptySeq(ScoresOf(game_info, kyoku_info))
            THEN Len(ScoresOf(game_info, kyoku_info).v)
            ELSE IF NonEmptySeq(Get(kyoku_info, "discarded", PyNone))
            THEN Len(Get(kyoku_info, "discarded", PyNone).v)
            ELSE IF NonEmptySeq(Get(kyoku_info, "melded", PyNone))
            THEN Len(Get(kyoku_info, "melded", PyNone).v)
            ELSE IF is_3p THEN 3 ELSE 4

C12_Witness ==
    /\ pc = "decode"
    /\ ScoresOf(game_info, kyoku_info) = List(<<>>)
    /\ Get(kyoku_info, "discarded", PyNone) = FullDiscarded(3)
    /\ Get(kyoku_info, "melded", PyNone) = FullMelded(4)
    /\ ~is_3p
    /\ n_seats = 3

\* the decoded mask and the softmax weights of the payload's meta source
MaskOf(r) == mask_bits_to_bool_list(DictGet(meta_source(r), "mask_bits", PyInt(0))).v
WeightsOf(r) == softmax(DictGet(meta_source(r), "q_values", List(<<>>))).v

\* the option claimed for the k-th true mask position
PairedOption(r, is3p, k) ==
    LET pos == TrueIdx(MaskOf(r))[k]
        vocab == IF is3p THEN MJAI_MASK_LIST_3P ELSE MJAI_MASK_LIST
    IN  Tuple(<<IF pos <= Len(vocab) THEN S(vocab[pos])
                ELSE Str(<<"idx_", ToString(pos - 1)>>),
                IF k <= Len(WeightsOf(r)) THEN WeightsOf(r)[k] ELSE Num(0)>>)

\* C16: in the manual decode the k-th true mask position, in ascending order,
\* is paired with the k-th softmax weight; surplus positions get 0.0, surplus
\* weights are dropped, a position beyond the vocabulary is named idx_<i>,
\* and no mismatch makes the pairing raise.
C16_ManualPairingByRank ==
    (pc = "parse_done" /\ parsed.info = InfoManual)
        => /\ ~parsed.raised
           /\ Len(parsed.options) = Len(TrueIdx(MaskOf(ai_reco)))
           /\ \A k \in 1..Len(TrueIdx(MaskOf(ai_reco))) :
                 \E j \in 1..Len(parsed.options) :
                    parsed.options[j] = PairedOption(ai_reco, is_3p, k)

C16_Witness ==
    /\ pc = "parse_done"
    /\ parsed.info = InfoManual
    /\ is_3p
    /\ Len(WeightsOf(ai_reco)) = 2
    /\ Len(parsed.options) = 3
    /\ \E j \in 1..3 : parsed.options[j] = Tuple(<<Str(<<"idx_", "2">>), Num(0)>>)

----------------------------------------------------------------------------
(* The renderers called on their own *)

\* largest seat index drawn for the actor and the source seat of a meld
MaxSeat == 4

\* melds_info lists: one (call type, actor, source) record, the source seat
\* present, None or left out
MeldInfoInputs ==
    { List(<<Tuple(<<S(tag), PyInt(a), tg>>)>>) :
        tag \in {"pon", "chi"}, a \in 0..MaxSeat,
        tg \in {PyNone} \cup {PyInt(x) : x \in 0..MaxSeat} }
    \cup { List(<<Tuple(<<S("pon"), PyInt(a)>>)>>) : a \in 0..MaxSeat }
    \cup { List(<<Tuple(<<S("pon"), PyInt(1), PyInt(3)>>),
                  Tuple(<<S("daiminkan"), PyInt(2), PyInt(0)>>)>>),
           List(<<>>), PyNone }

\* probabilities: None, ints and floats (in thousandths) inside, on and
\* beyond the borders 0, 1 and 100, a bool, strs and a list
ProbInputs ==
    { PyNone, S("high"), S("0.5"), Bool(TRUE), List(<<PyInt(1)>>) }
    \cup { PyInt(n) : n \in {-5, -1, 0, 1, 2, 42, 99, 100, 101, 150} }
    \cup { Num(m) : m \in {-500, -1, 0, 1, 500, 873, 999, 1000, 1001, 1500, 42000,
                            99949, 100000, 100001, 150500} }

\* the tags and tiles the action descriptors are built from
KnownTags == {"dahai", "pon", "chi_low", "reach", "ankan", "none"}
SomeTiles == {S("5mr"), S("E"), S("9p")}

\* a (tag, tile) action in its representations: bare string tag, pair (as
\* tuple and as list), record with type/pai and with action/tile
TaggedInputs ==
    { S(tag) : tag \in KnownTags }
    \cup { Tuple(<<S(tag), tile>>) : tag \in KnownTags, tile \in SomeTiles \cup {PyNone} }
    \cup { List(<<S(tag), tile>>) : tag \in KnownTags, tile \in SomeTiles }
    \cup { Dict(<< <<"type", S(tag)>> >> \o Entry("pai", tile)) :
             tag \in KnownTags, tile \in SomeTiles \cup {Absent} }
    \cup { Dict(<< <<"action", S(tag)>>, <<"tile", tile>> >>) :
             tag \in KnownTags, tile \in SomeTiles }

\* other descriptors: None, numbers, tiles, unknown tags, (tile, prob) pairs,
\* sequences of one and of three elements, records without a tag
OtherActionInputs ==
    { PyNone, PyInt(5), S("1m"), S("zz"), S("?"),
      Tuple(<<S("1m"), Num(500)>>), Tuple(<<S("zz"), S("1m")>>),
      Tuple(<<S("pon")>>), Tuple(<<S("1m")>>), Tuple(<<>>),
      Tuple(<<S("dahai"), S("5mr"), PyInt(3)>>),
      Dict(<< <<"type", S("zz")>>, <<"pai", S("1m")>> >>),
      Dict(<< <<"type", S("1m")>> >>), Dict(<< <<"pai", S("1m")>> >>),
      Dict(<< <<"prob", Num(500)>> >>) }

ActionInputs == TaggedInputs \cup OtherActionInputs

\* longest indicator list drawn
MaxMarkers == 2

\* the 37 real tile codes of the localization table: every key but "?"
RealTiles == (DOMAIN MJAI_TILE_2_NL) \ {"?"}

\* indicator lists: every single real tile, and every list of up to
\* MaxMarkers indicators over a few of them
MarkerInputs ==
    { List(<<S(t)>>) : t \in RealTiles }
    \cup { List(ms) : ms \in SeqsOf({S("9m"), S("5pr"), S("N"), S("C")}, 0..MaxMarkers) }

\* the call has not run yet
Pending == ret = Absent

RenderInit ==
    /\ ExplainInit
    /\ NoAuth
    /\ ret = Absent
    /\ \/ fn = "melds_info_to_nl" /\ arg \in MeldInfoInputs
       \/ fn = "_fmt_prob" /\ arg \in ProbInputs
       \/ fn = "action_to_nl" /\ arg \in ActionInputs
       \/ fn = "get_dora_from_markers" /\ arg \in MarkerInputs

\* melds_info_to_nl(arg)
Call_melds_info_to_nl ==
    /\ fn = "melds_info_to_nl"
    /\ Pending
    /\ ret' = melds_info_to_nl(arg)
    /\ UNCHANGED <<fn, arg, explain_vars, auth_vars>>

\* _fmt_prob(arg)
Call_fmt_prob ==
    /\ fn = "_fmt_prob"
    /\ Pending
    /\ ret' = fmt_prob(arg)
    /\ UNCHANGED <<fn, arg, explain_vars, auth_vars>>

\* action_to_nl(arg)
Call_action_to_nl ==
    /\ fn = "action_to_nl"
    /\ Pending
    /\ ret' = action_to_nl(arg)
    /\ UNCHANGED <<fn, arg, explain_vars, auth_vars>>

\* get_dora_from_markers(arg)
Call_get_dora_from_markers ==
    /\ fn = "get_dora_from_markers"
    /\ Pending
    /\ ret' = get_dora_from_markers(arg)
    /\ UNCHANGED <<fn, arg, explain_vars, auth_vars>>

RenderNext ==
    \/ Call_action_to_nl
    \/ Call_get_dora_from_markers
    \/ Call_fmt_prob
    \/ Call_melds_info_to_nl

RenderSpec == RenderInit /\ [][RenderNext]_vars

----------------------------------------------------------------------------
(* The token cache in use *)

\* latest time and latest exp claim drawn
MaxTime == 2

\* the outcome of a get_*_token call: whether it went to the identity
\* service, whether it raised, and the token it returned
Call(name, attempted, raised, token) ==
    [t |-> "call", service |-> name, attempted |-> attempted,
     raised |-> raised, token |-> token]

\* get_<name>_token(): refresh_<name>_token() then _get_token(name); the
\* identity service issues a token with any exp claim, or fails
GetToken(name) ==
    /\ IF is_fresh(tokens[name], now)
       THEN /\ tokens' = tokens
            /\ last' = Call(name, FALSE, FALSE, tokens[name])
       ELSE \/ \E e \in 0..MaxTime :
                 /\ tokens' = [tokens EXCEPT ![name] = Jwt(e)]
                 /\ last' = Call(name, TRUE, FALSE, Jwt(e))
            \/ /\ tokens' = tokens
               /\ last' = Call(name, TRUE, TRUE, PyNone)
    /\ UNCHANGED <<now, explain_vars, render_vars>>

\* the clock advances
Tick ==
    /\ now < MaxTime
    /\ now' = now + 1
    /\ UNCHANGED <<tokens, last, explain_vars, render_vars>>

\* SimpleAuth.clear_cache()
ClearCache ==
    /\ tokens' = EmptyCache
    /\ UNCHANGED <<now, last, explain_vars, render_vars>>

AuthNext ==
    \/ \E name \in Services : GetToken(name)
    \/ Tick
    \/ ClearCache

AuthSpec == Init /\ [][AuthNext]_vars

----------------------------------------------------------------------------
(* The properties of the renderers *)

\* the relative-seat label of an offset: offsets congruent modulo 4 within
\* -3..3 share a label, any other offset has none
RelativeSeat(offset) ==
    IF offset \in (-3)..3
    THEN CASE offset % 4 = 0 -> "cn_ziji"
           [] offset % 4 = 1 -> "cn_xiajia"
           [] offset % 4 = 2 -> "cn_duijia"
           [] OTHER -> "cn_shangjia"
    ELSE "None"

\* C11: every meld whose info record names a source seat is rendered with its
\* call type and the relative-seat label of (source seat - actor seat), for
\* every source seat including seat 0; an offset outside -3..3 gives an
\* absent label, not an error.
C11_MeldSourceLabelled ==
    (fn = "melds_info_to_nl" /\ ~Pending /\ Truthy(arg))
        => /\ ret.t = "list"
           /\ \A i \in 1..Len(arg.v) :
                 (Len(arg.v[i].v) = 3 /\ arg.v[i].v[3].t = "int")
                    => ret.v[i] = Str(<<ACTION_NL[arg.v[i].v[1].v[1]], "(from ",
                                        RelativeSeat(arg.v[i].v[3].v - arg.v[i].v[2].v),
                                        ")">>)

\* a percentage with one decimal, given in tenths of a percent
Percent(tenths) == Str(<<" (", ToString(tenths), "tenths%", ")">>)

\* the value in parentheses with no percent sign
Verbatim(toks) == Str(<<" (">> \o toks \o <<")">>)

\* C13 as stated: None gives no parenthetical; a numeric value in [0,1] is
\* shown as value*100 with one decimal and a percent sign; one in (1,100] as
\* itself with one decimal and a percent sign; any other numeric value
\* verbatim in parentheses; a non-numeric value verbatim in parentheses,
\* never raising. The boundary value 1 is formatted as a fraction.
C13_ProbSuffixPartition ==
    (fn = "_fmt_prob" /\ ~Pending)
        => ret =
            IF arg.t = "None" THEN Str(<<>>)
            ELSE IF IsRaise(FloatOf(arg)) THEN Verbatim(StrOf(arg))
            ELSE IF FloatOf(arg).v \in 0..1000 THEN Percent(FloatOf(arg).v)
            ELSE IF FloatOf(arg).v \in 1001..100000
            THEN Percent((FloatOf(arg).v + 50) \div 100)
            ELSE Verbatim(StrOf(arg))

\* C13 amended: as stated, except that a numeric value below 0 or above 100
\* is shown as its float conversion (150 -> 150.0), not verbatim, in
\* parentheses with no percent sign.
C13_ProbSuffixFloatText ==
    (fn = "_fmt_prob" /\ ~Pending)
        => ret =
            IF arg.t = "None" THEN Str(<<>>)
            ELSE IF IsRaise(FloatOf(arg)) THEN Verbatim(StrOf(arg))
            ELSE IF FloatOf(arg).v \in 0..1000 THEN Percent(FloatOf(arg).v)
            ELSE IF FloatOf(arg).v \in 1001..100000
            THEN Percent((FloatOf(arg).v + 50) \div 100)
            ELSE Verbatim(StrOf(FloatOf(arg)))

C13_Witness ==
    /\ fn = "_fmt_prob"
    /\ arg = PyInt(1)
    /\ ret = Percent(1000)

\* the tag and the tile argument a representation of an action carries
TagOf(a) ==
    IF IsStr(a) THEN a.v[1]
    ELSE IF IsSeq(a) THEN a.v[1].v[1]
    ELSE PyOr(DictGet(a, "type", PyNone), DictGet(a, "action", PyNone)).v[1]
TileOf(a) ==
    IF IsStr(a) THEN PyNone
    ELSE IF IsSeq(a) THEN a.v[2]
    ELSE PyOr(DictGet(a, "pai", PyNone), DictGet(a, "tile", PyNone))

\* the text claimed for a known tag and its tile argument (None when absent)
TaggedText(tag, tile) ==
    IF tag = "dahai"
    THEN IF tile.t = "None" THEN S("cn_da")
         ELSE Str(<<"cn_da", MJAI_TILE_2_NL[tile.v[1]]>>)
    ELSE IF tile.t = "None" THEN S(ACTION_NL[tag])
         ELSE Str(<<ACTION_NL[tag], " ", MJAI_TILE_2_NL[tile.v[1]]>>)

\* C14: in every representation (bare string tag, (tag, tile) pair, record)
\* a discard is the short verb directly followed by the localized tile, never
\* the long table form; every other known tag is "<verb> <tile>" with a tile
\* and the bare verb without; the representations of one (tag, tile) agree.
C14_TaggedActionText ==
    (fn = "action_to_nl" /\ ~Pending /\ arg \in TaggedInputs)
        => /\ ret = TaggedText(TagOf(arg), TileOf(arg))
           /\ TagOf(arg) = "dahai" => ret.v[1] # ACTION_NL["dahai"]

C14_Witness ==
    /\ fn = "action_to_nl"
    /\ arg = Dict(<< <<"type", S("dahai")>>, <<"pai", S("5mr")>> >>)
    /\ ret = Str(<<"cn_da", MJAI_TILE_2_NL["5mr"]>>)

\* the tiles of one suit in rank order, the winds and the dragons in their
\* rotation order
SuitRun(suit) == [r \in 1..9 |-> ToString(r) \o suit]
WindRun == <<"E", "S", "W", "N">>
DragonRun == <<"P", "F", "C">>
TileGroups == {SuitRun("m"), SuitRun("p"), SuitRun("s"), WindRun, DragonRun}

\* C15: the dora successor table is a permutation of the 34 basic tiles made
\* of one cycle per group: rank r -> r+1 and 9 -> 1 within each suit, the
\* winds E->S->W->N->E, the dragons P->F->C->P; no tile maps out of its group.
\* A single indicator therefore yields the next tile of its own group.
C15_DoraCyclesWithinGroups ==
    /\ DOMAIN DORA_DORA_MARKERS = UNION {{g[i] : i \in 1..Len(g)} : g \in TileGroups}
    /\ Cardinality(DOMAIN DORA_DORA_MARKERS) = 34
    /\ {DORA_DORA_MARKERS[t] : t \in DOMAIN DORA_DORA_MARKERS} = DOMAIN DORA_DORA_MARKERS
    /\ \A g \in TileGroups : \A i \in 1..Len(g) :
          /\ DORA_DORA_MARKERS[g[i]] = g[(i % Len(g)) + 1]
          /\ (fn = "get_dora_from_markers" /\ ~Pending /\ arg = List(<<S(g[i])>>))
                => ret = List(<<S(g[(i % Len(g)) + 1])>>)

C15_Witness ==
    /\ fn = "get_dora_from_markers"
    /\ arg = List(<<S("9m"), S("N")>>)
    /\ ret = List(<<S("1m"), S("E")>>)

\* C17: rendering an action is idempotent: action_to_nl(action_to_nl(a)) =
\* action_to_nl(a) for every action descriptor a, so the second rendering in
\* explain leaves the decoder's text unchanged.
C17_RenderIdempotent ==
    (fn = "action_to_nl" /\ ~Pending /\ ~IsRaise(ret))
        => action_to_nl(ret) = ret

\* C18: for every indicator list over the 37 real tile codes,
\* get_dora_from_markers yields exactly one dora tile per indicator, in
\* indicator order: no indicator is dropped.
C18_OneDoraPerIndicator ==
    (fn = "get_dora_from_markers" /\ ~Pending)
        => /\ ret.t = "list"
           /\ Len(ret.v) = Len(arg.v)

----------------------------------------------------------------------------
(* The properties of the token cache *)

\* this step is a get_*_token call for name (a call that changes nothing and
\* answers like the call before it is a stuttering step)
GetStep(name) == last' # last /\ last'.service = name

\* C19: a get call goes to the identity service if and only if no token is
\* cached for the service or the cached exp is earlier than the current time,
\* otherwise it returns the cached token; a failed acquisition raises and
\* leaves the cache unchanged; a get call for one service never changes the
\* token of another; a successful get returns a token whose expiry was
\* checked to be not earlier than the time of the call, or one acquired
\* during the call.
C19_TokenCache ==
    [][\A name \in Services : GetStep(name) =>
          /\ last'.attempted <=> (tokens[name].t = "None" \/ tokens[name].exp < now)
          /\ ~last'.attempted =>
                /\ ~last'.raised
                /\ last'.token = tokens[name]
                /\ tokens' = tokens
          /\ last'.raised => last'.attempted /\ tokens' = tokens
          /\ \A other \in Services \ {name} : tokens'[other] = tokens[other]
          /\ ~last'.raised =>
                /\ last'.token = tokens'[name]
                /\ last'.token.t = "jwt"
                /\ last'.attempted \/ last'.token.exp >= now
      ]_vars

C19_Witness ==
    /\ last.t = "call"
    /\ ~last.attempted
    /\ last.token = Jwt(now)
    /\ now > 0
    /\ \E other \in Services \ {last.service} :
          tokens[other].t = "jwt" /\ tokens[other].exp < now

=============================================================================
